---------------------------- MODULE Spec2Model ----------------------------
(***************************************************************************)
(* CustomSession (src/CustomSession.py, the live class at lines 96-182):   *)
(* a wrapper around a requests session.  The model follows one wrapper     *)
(* from construction through a sequence of get_session and                 *)
(* hit_and_get_data calls, with hit_and_get_data unfolded into its steps   *)
(* (sleep, the attempts the mounted transport adapter makes, the waits     *)
(* between them, JSON decoding, the two except clauses).                   *)
(*                                                                         *)
(* The remote endpoint is the environment: it answers the i-th attempt of  *)
(* a call with script[i] (an HTTP status, a refused connection, or         *)
(* silence) and sends the same body with every response.                   *)
(***************************************************************************)
EXTENDS Integers, Sequences, FiniteSets, TLC

(***************************************************************************)
(* Bounds of the model.                                                    *)
(***************************************************************************)
\* Number of hit_and_get_data calls followed in one run.
MaxCalls == 2

(***************************************************************************)
(* Configuration written by __init__.                                      *)
(***************************************************************************)
\* Retry(total=3, ...)
total == 3
\* Retry(..., backoff_factor=2, ...)
backoff_factor == 2
\* Retry(..., status_forcelist=[...])
status_forcelist == {500, 502, 503, 504, 400, 401, 402, 403}
\* self.session.timeout = 30
timeout == 30
\* self.delay = 1
delay == 1
\* Retry.DEFAULT_BACKOFF_MAX of the Retry class the constructor instantiates:
\* the cap of a backoff wait, in seconds.
BACKOFF_MAX == 120

(***************************************************************************)
(* JSON values.  Every value is a record of one shape, so that any two     *)
(* values can be compared: t is the type, n the number of a "num", v the   *)
(* elements of an "arr" or the members of an "obj" (a member is a record   *)
(* whose t is the key and whose v holds the one value).                    *)
(***************************************************************************)
JNum(k) == [t |-> "num", n |-> k, v |-> <<>>]
JArr(elems) == [t |-> "arr", n |-> 0, v |-> elems]
JObj(members) == [t |-> "obj", n |-> 0, v |-> members]
JMember(key, val) == [t |-> key, n |-> 0, v |-> <<val>>]
\* The literal {} of the two except clauses.
EmptyMapping == JObj(<<>>)
\* No value returned (yet).
NoValue == [t |-> "none", n |-> 0, v |-> <<>>]

(***************************************************************************)
(* response.json(): json.loads over the body text.  A body is a sequence   *)
(* of lexical tokens; the parser is the recursive descent of json.loads on *)
(* the grammar  value ::= digit | [ value , ... ] | { key : value , ... }  *)
(* with blanks allowed around every token and nothing allowed after the    *)
(* value.                                                                  *)
(***************************************************************************)
Digits == {"1", "2"}
Keys == {"a", "b"}
DigitValue(tok) == IF tok = "1" THEN 1 ELSE 2
ParseFail == [ok |-> FALSE, val |-> NoValue, nxt |-> 0]
ParseOk(val, nxt) == [ok |-> TRUE, val |-> val, nxt |-> nxt]

RECURSIVE SkipWs(_, _)
SkipWs(s, i) ==
    IF i <= Len(s) /\ s[i] = " " THEN SkipWs(s, i + 1) ELSE i

TokenAt(s, i, tok) == i <= Len(s) /\ s[i] = tok

RECURSIVE ParseValue(_, _)
RECURSIVE ParseElements(_, _, _)
RECURSIVE ParseMembers(_, _, _)

ParseValue(s, i) ==
    LET j == SkipWs(s, i) IN
    IF j > Len(s) THEN ParseFail
    ELSE IF s[j] \in Digits THEN ParseOk(JNum(DigitValue(s[j])), j + 1)
    ELSE IF s[j] = "[" THEN
        LET k == SkipWs(s, j + 1) IN
        IF TokenAt(s, k, "]") THEN ParseOk(JArr(<<>>), k + 1)
        ELSE ParseElements(s, k, <<>>)
    ELSE IF s[j] = "{" THEN
        LET k == SkipWs(s, j + 1) IN
        IF TokenAt(s, k, "}") THEN ParseOk(JObj(<<>>), k + 1)
        ELSE ParseMembers(s, k, <<>>)
    ELSE ParseFail

ParseElements(s, i, acc) ==
    LET r == ParseValue(s, i) IN
    IF ~r.ok THEN ParseFail
    ELSE LET k == SkipWs(s, r.nxt) IN
         IF TokenAt(s, k, ",") THEN ParseElements(s, k + 1, Append(acc, r.val))
         ELSE IF TokenAt(s, k, "]") THEN ParseOk(JArr(Append(acc, r.val)), k + 1)
         ELSE ParseFail

ParseMembers(s, i, acc) ==
    LET j == SkipWs(s, i) IN
    IF ~(j <= Len(s) /\ s[j] \in Keys) THEN ParseFail
    ELSE LET c == SkipWs(s, j + 1) IN
         IF ~TokenAt(s, c, ":") THEN ParseFail
         ELSE LET r == ParseValue(s, c + 1) IN
              IF ~r.ok THEN ParseFail
              ELSE LET k == SkipWs(s, r.nxt)
                       m == Append(acc, JMember(s[j], r.val))
                   IN IF TokenAt(s, k, ",") THEN ParseMembers(s, k + 1, m)
                      ELSE IF TokenAt(s, k, "}") THEN ParseOk(JObj(m), k + 1)
                      ELSE ParseFail

\* json.loads(text): one value, then only blanks ("Extra data" otherwise).
json_loads(s) ==
    LET r == ParseValue(s, 1) IN
    IF r.ok /\ SkipWs(s, r.nxt) > Len(s) THEN r ELSE ParseFail

\* The response bodies the endpoint may send.
Bodies ==
    { <<"{", "}">>,
      <<"{", "a", ":", "1", "}">>,
      <<" ", "[", "1", ",", "2", "]">>,
      <<"[", "1">>,
      <<"n", "o", "t">>,
      <<>> }


(***************************************************************************)
(* The environment: URLs, header arguments, endpoint behaviour.            *)
(***************************************************************************)
\* A URL is its scheme and the rest; the scheme is what get_adapter matches.
Urls ==
    { [scheme |-> "https://", rest |-> "example.test/data"],
      [scheme |-> "http://", rest |-> "example.test/data"] }

\* A header mapping is a set of <<name, value>> pairs with distinct names.
\* The optional constructor argument: given = FALSE is headers=None.
HeaderArgs ==
    { [given |-> FALSE, map |-> {}],
      [given |-> TRUE, map |-> {}],
      [given |-> TRUE, map |-> {<<"Accept", "application/json">>}] }

\* Python truthiness of the headers argument: None and {} are falsy.
Truthy(h) == h.given /\ h.map # {}

\* What the endpoint does with one attempt.
Outcomes ==
    { [kind |-> "status", status |-> 200],
      [kind |-> "status", status |-> 404],
      [kind |-> "status", status |-> 503],
      [kind |-> "refused", status |-> 0],
      [kind |-> "silent", status |-> 0] }

\* The most attempts one request makes under the configured policy.
MaxAttempts == total + 1

\* script[i] answers the i-th attempt of a call.
Scripts == [1..MaxAttempts -> Outcomes]

(***************************************************************************)
(* The retry policy objects (Retry) and the adapters that hold them.       *)
(***************************************************************************)
\* Retry(total=3, backoff_factor=2, status_forcelist=[...]), lines 135-139.
\* read = TRUE: read errors are retried; history counts the failed attempts.
retries ==
    [total |-> total, backoff_factor |-> backoff_factor,
     status_forcelist |-> status_forcelist, read |-> TRUE, history |-> 0]

\* The policy of the adapters session() mounts on "https://" and "http://":
\* HTTPAdapter() with max_retries = Retry(0, read=False).
DEFAULT_RETRIES ==
    [total |-> 0, backoff_factor |-> 0,
     status_forcelist |-> {}, read |-> FALSE, history |-> 0]

\* session(): a fresh client with the two default adapters and the default
\* headers; 1 is the identity of the client object.
session ==
    [id |-> 1,
     adapters |-> [p \in {"https://", "http://"} |-> DEFAULT_RETRIES],
     headers |-> {<<"User-Agent", "python-requests">>, <<"Accept", "*/*">>},
     timeout |-> {}]

\* session.mount(prefix, HTTPAdapter(max_retries=r)): replaces the adapter of
\* that prefix and leaves the others alone.
mount(s, prefix, r) ==
    [s EXCEPT !.adapters = [p \in DOMAIN s.adapters \cup {prefix} |->
                               IF p = prefix THEN r ELSE s.adapters[p]]]

\* __init__(headers): the wrapper's attributes after construction.  The
\* timeout is stored as an attribute of the session object (line 145).
CustomSession_init(headers) ==
    [session |-> [mount(session, "https://", retries) EXCEPT !.timeout = {timeout}],
     headers |-> IF Truthy(headers) THEN headers.map ELSE {},
     delay |-> delay]

\* Session.get_adapter(url): the policy of the adapter whose prefix the URL
\* starts with.
get_adapter(s, url) == s.adapters[url.scheme]

\* Mutant of merge_headers: on a name both mappings carry, the session's
\* default wins over the header of the request.
merge_headers_session_wins(request_headers, session_headers) ==
    session_headers \cup
      {h \in request_headers : \A r \in session_headers : r[1] # h[1]}

\* merge_setting(request_headers, session_headers): the session's headers,
\* overridden by name by those of the request.
merge_headers(request_headers, session_headers) ==
    request_headers \cup
      {h \in session_headers : \A r \in request_headers : r[1] # h[1]}

\* self.session.get(url, params=params, headers=self.headers): the settings
\* of the request.  No timeout argument is passed, and Session.request reads
\* none from the session's attributes: the request's timeout is None ({}).
session_get_request(w) ==
    [headers |-> merge_headers(w.headers, w.session.headers), timeout |-> {}]

\* Retry.is_retry(method, status_code) for a GET.
is_retry(r, status) == status \in r.status_forcelist

\* Retry.increment(): one more failed attempt.
increment(r) == [r EXCEPT !.total = r.total - 1, !.history = r.history + 1]

\* Retry.is_exhausted()
is_exhausted(r) == r.total < 0

\* Mutant of get_backoff_time: the first retry waits too, backoff_factor *
\* 2^(failures - 1) after every failure.
get_backoff_time_from_first(r) ==
    LET b == r.backoff_factor * 2 ^ (r.history - 1)
    IN IF b < BACKOFF_MAX THEN b ELSE BACKOFF_MAX

\* Retry.get_backoff_time(): nothing after the first failure, then
\* backoff_factor * 2^(failures - 1), capped.
get_backoff_time(r) ==
    IF r.history <= 1 THEN 0
    ELSE LET b == r.backoff_factor * 2 ^ (r.history - 1)
         IN IF b < BACKOFF_MAX THEN b ELSE BACKOFF_MAX

(***************************************************************************)
(* State.                                                                  *)
(***************************************************************************)
VARIABLES
    headers_arg, \* the headers argument the wrapper was constructed with
    w,        \* the wrapper: session, headers, delay
    script,   \* the endpoint: script[i] answers the i-th attempt of a call
    body,     \* the endpoint: the body of every response it sends
    pc,       \* position: "idle", "sleep", "get", "backoff", "ret", "done",
              \* "blocked"
    url,      \* the url argument of the call in progress
    trace,    \* what the call in progress did so far: sleeps and attempts
    retry,    \* the Retry object of the request in progress
    res,      \* what session.get came back with: a response or an error
    ret,      \* the value the last call returned
    raised,   \* whether the last call ended by an error reaching its caller
    out,      \* the diagnostic messages the call in progress printed
    ncalls,   \* hit_and_get_data calls started
    paid,     \* executions of time.sleep(self.delay)
    prev,     \* attempts and value of the call before the current one
    got       \* the handle the last get_session returned, if any

vars ==
    <<headers_arg, w, script, body, pc, url, trace, retry, res, ret, raised, out, ncalls,
      paid, prev, got>>

\* Trace events.
DelayEv(d) == [ev |-> "delay", d |-> d, headers |-> {}, timeout |-> {}]
BackoffEv(d) == [ev |-> "backoff", d |-> d, headers |-> {}, timeout |-> {}]
SendEv(req) == [ev |-> "send", d |-> 0, headers |-> req.headers, timeout |-> req.timeout]

RECURSIVE CountEv(_, _)
CountEv(tr, e) ==
    IF tr = <<>> THEN 0
    ELSE (IF Head(tr).ev = e THEN 1 ELSE 0) + CountEv(Tail(tr), e)

\* HTTP attempts of the call in progress.
Attempts == CountEv(trace, "send")

NoResult == [kind |-> "none", status |-> 0, err |-> ""]
Response(status) == [kind |-> "response", status |-> status, err |-> ""]
Error(err) == [kind |-> "error", status |-> 0, err |-> err]

NoPrev == [valid |-> FALSE, attempts |-> 0, ret |-> NoValue]

(***************************************************************************)
(* Construction.                                                           *)
(***************************************************************************)
Init ==
    /\ headers_arg \in HeaderArgs
    /\ w = CustomSession_init(headers_arg)
    /\ script \in Scripts
    /\ body \in Bodies
    /\ pc = "idle"
    /\ url = CHOOSE u \in Urls : TRUE
    /\ trace = <<>>
    /\ retry = DEFAULT_RETRIES
    /\ res = NoResult
    /\ ret = NoValue
    /\ raised = FALSE
    /\ out = <<>>
    /\ ncalls = 0
    /\ paid = 0
    /\ prev = NoPrev
    /\ got = {}

\* Mutant of get_session: hands out a new client instead of the wrapper's.
get_session_fresh ==
    /\ pc \in {"idle", "done"}
    /\ got' = {session}
    /\ UNCHANGED <<headers_arg, w, script, body, pc, url, trace, retry, res, ret,
                   raised, out, ncalls, paid, prev>>

(***************************************************************************)
(* get_session(), lines 150-154.                                           *)
(***************************************************************************)
get_session ==
    /\ pc \in {"idle", "done"}
    /\ got' = {w.session}
    /\ UNCHANGED <<headers_arg, w, script, body, pc, url, trace, retry, res, ret, raised,
                   out, ncalls, paid, prev>>

(***************************************************************************)
(* hit_and_get_data(url, params), lines 156-182.                           *)
(***************************************************************************)
\* Entry: the caller's control flow starts a call when the last one ended.
hit_and_get_data ==
    /\ pc \in {"idle", "done"}
    /\ ncalls < MaxCalls
    /\ \E u \in Urls : url' = u
    /\ prev' = IF pc = "done"
               THEN [valid |-> TRUE, attempts |-> Attempts, ret |-> ret]
               ELSE prev
    /\ pc' = "sleep"
    /\ trace' = <<>>
    /\ out' = <<>>
    /\ res' = NoResult
    /\ ret' = NoValue
    /\ raised' = FALSE
    /\ ncalls' = ncalls + 1
    /\ UNCHANGED <<headers_arg, w, script, body, retry, paid, got>>

\* Mutant of time_sleep: the request is issued without the sleep.
time_sleep_skipped ==
    /\ pc = "sleep"
    /\ retry' = get_adapter(w.session, url)
    /\ pc' = "get"
    /\ UNCHANGED <<headers_arg, w, script, body, url, trace, res, ret, raised,
                   out, ncalls, paid, prev, got>>

\* Line 170: time.sleep(self.delay); then session.get picks the adapter of
\* the URL and starts from that adapter's retry policy.
time_sleep ==
    /\ pc = "sleep"
    /\ trace' = Append(trace, DelayEv(w.delay))
    /\ paid' = paid + 1
    /\ retry' = get_adapter(w.session, url)
    /\ pc' = "get"
    /\ UNCHANGED <<headers_arg, w, script, body, url, res, ret, raised, out, ncalls, prev, got>>

\* What one attempt leads to (HTTPAdapter.send / urlopen under policy r),
\* given the endpoint's answer o and the request's timeout tmo:
\*  - no answer: without a timeout the read never returns; with one it is a
\*    read error, retried when the policy retries reads;
\*  - a refused connection, or a status the policy retries: one more failure,
\*    and an error once the policy is exhausted;
\*  - any other status: the response.
AfterAttempt(r, o, tmo) ==
    LET r2 == increment(r)
        failed(err) ==
            IF is_exhausted(r2)
            THEN [pc |-> "ret", retry |-> r2, res |-> Error(err)]
            ELSE [pc |-> "backoff", retry |-> r2, res |-> NoResult]
    IN
    IF o.kind = "silent" THEN
        IF tmo = {} THEN [pc |-> "blocked", retry |-> r, res |-> NoResult]
        ELSE IF ~r.read THEN [pc |-> "ret", retry |-> r, res |-> Error("ReadTimeout")]
        ELSE failed("ConnectionError")
    ELSE IF o.kind = "refused" THEN failed("ConnectionError")
    ELSE IF is_retry(r, o.status) THEN failed("RetryError")
    ELSE [pc |-> "ret", retry |-> r, res |-> Response(o.status)]

\* Line 173: one HTTP attempt of self.session.get(...).
attempt ==
    /\ pc = "get"
    /\ LET req == session_get_request(w)
           n == Attempts + 1
           o == script[IF n <= MaxAttempts THEN n ELSE MaxAttempts]
           a == AfterAttempt(retry, o, req.timeout)
       IN /\ trace' = Append(trace, SendEv(req))
          /\ pc' = a.pc
          /\ retry' = a.retry
          /\ res' = a.res
    /\ UNCHANGED <<headers_arg, w, script, body, url, ret, raised, out, ncalls, paid, prev, got>>

\* Retry.sleep() between two attempts of one request.
backoff ==
    /\ pc = "backoff"
    /\ trace' = Append(trace, BackoffEv(get_backoff_time(retry)))
    /\ pc' = "get"
    /\ UNCHANGED <<headers_arg, w, script, body, url, retry, res, ret, raised, out, ncalls,
                   paid, prev, got>>

\* Mutant of except_JSONDecodeError: the message leaves out the URL.
except_JSONDecodeError_no_url(u) ==
    [ret |-> EmptyMapping, raised |-> FALSE,
     out |-> <<[msg |-> "Failed to decode JSON from response at URL", url |-> [scheme |-> "", rest |-> ""], err |-> ""]>>]

\* Lines 177-179: except json.JSONDecodeError.
except_JSONDecodeError(u) ==
    [ret |-> EmptyMapping, raised |-> FALSE,
     out |-> <<[msg |-> "Failed to decode JSON from response at URL", url |-> u, err |-> ""]>>]

\* Mutant of except_Exception: the error is reported and raised again.
except_Exception_reraise(u, err) ==
    [ret |-> NoValue, raised |-> TRUE,
     out |-> <<[msg |-> "Error in connecting to URL", url |-> u, err |-> err]>>]

\* Lines 180-182: except Exception as err.
except_Exception(u, err) ==
    [ret |-> EmptyMapping, raised |-> FALSE,
     out |-> <<[msg |-> "Error in connecting to URL", url |-> u, err |-> err]>>]

\* Mutant of finish: a response is decoded only when its status is 200 (as
\* after a raise_for_status()), any other status ends in the blanket except.
finish_ok_only(u, r, b) ==
    IF r.kind = "response" /\ r.status = 200
    THEN LET p == json_loads(b)
         IN IF p.ok THEN [ret |-> p.val, raised |-> FALSE, out |-> <<>>]
            ELSE except_JSONDecodeError(u)
    ELSE except_Exception(u, IF r.kind = "response" THEN "HTTPError" ELSE r.err)

\* Lines 173-182: what the call ends with, given what session.get came back
\* with (r) and the body (b) of the response.
finish(u, r, b) ==
    IF r.kind = "response"
    THEN LET p == json_loads(b)
         IN IF p.ok THEN [ret |-> p.val, raised |-> FALSE, out |-> <<>>]
            ELSE except_JSONDecodeError(u)
    ELSE except_Exception(u, r.err)

\* Lines 176-182: return response.json(), or the except clause that applies.
return ==
    /\ pc = "ret"
    /\ LET f == finish(url, res, body)
       IN /\ ret' = f.ret
          /\ raised' = f.raised
          /\ out' = out \o f.out
    /\ pc' = "done"
    /\ UNCHANGED <<headers_arg, w, script, body, url, trace, retry, res, ncalls, paid, prev, got>>

Next ==
    \/ get_session
    \/ hit_and_get_data
    \/ time_sleep
    \/ attempt
    \/ backoff
    \/ return

Spec == Init /\ [][Next]_vars

(***************************************************************************)
(* Properties.                                                             *)
(***************************************************************************)
\* What json.loads makes of the endpoint's body.
Parsed == json_loads(body)

\* The waits of Retry.sleep() in the call in progress, in order.
IsBackoff(e) == e.ev = "backoff"
Backoffs == SelectSeq(trace, IsBackoff)

\* The attempts of the call in progress, in order.
IsSend(e) == e.ev = "send"
Sends == SelectSeq(trace, IsSend)

\* The endpoint answers every attempt with a status of the retry list.
AlwaysForcelisted ==
    \A i \in DOMAIN script :
        script[i].kind = "status" /\ script[i].status \in status_forcelist

C2_Original ==
    (pc = "done" /\ script[Attempts].kind = "status" /\ Parsed.ok)
        => ret = Parsed.val

\* C2 amended: whenever session.get returns a response whose body is
\* well-formed JSON, the call returns the parsed body, whatever the status
\* of that response.
C2_ParsedBodyReturned ==
    (pc = "done" /\ res.kind = "response" /\ Parsed.ok) => ret = Parsed.val

\* C2 witness: a 404 response with a JSON body that is not the empty
\* mapping, returned parsed.
C2_Witness ==
    /\ pc = "done"
    /\ res = Response(404)
    /\ Parsed.ok
    /\ Parsed.val # EmptyMapping
    /\ ret = Parsed.val

\* C3 as claimed: against an endpoint that answers every attempt with a
\* status of the retry list, a call makes exactly 4 attempts and returns the
\* empty mapping; no call makes more than 4 attempts.
C3_FourAttempts ==
    /\ Attempts <= total + 1
    /\ (pc = "done" /\ AlwaysForcelisted)
           => (Attempts = total + 1 /\ ret = EmptyMapping)

\* C4 as claimed: every attempt carries the 30-second timeout set at
\* construction, and no call waits forever on a silent endpoint.
C4_TimeoutBounded ==
    /\ \A i \in DOMAIN Sends : Sends[i].timeout = {timeout}
    /\ pc # "blocked"

C7_HeadersOnEveryAttempt ==
    /\ ~headers_arg.given => w.headers = {}
    /\ \A i \in DOMAIN Sends : headers_arg.map \subseteq Sends[i].headers

\* C7 witness: a fourth attempt (the third retry) was sent by a wrapper
\* constructed with a header.
C7_Witness ==
    /\ headers_arg.map # {}
    /\ Len(Sends) = 4
    /\ headers_arg.map \subseteq Sends[4].headers

\* C8 as claimed: two calls whose endpoint answers with the same sequence of
\* statuses make the same number of attempts and return the same value,
\* whatever the schemes of their URLs.
C8_SameForEveryUrl ==
    (pc = "done" /\ prev.valid) => (Attempts = prev.attempts /\ ret = prev.ret)

\* C9 as claimed: the wait before retry k is 2 x 2^(k-1) seconds (2, 4, 8),
\* strictly increasing, and the delay is not paid again between retries.
C9_Original ==
    /\ \A k \in DOMAIN Backoffs : Backoffs[k].d = backoff_factor * 2 ^ (k - 1)
    /\ \A k \in DOMAIN Backoffs : k > 1 => Backoffs[k - 1].d < Backoffs[k].d
    /\ \A i \in DOMAIN trace : i > 1 => trace[i].ev # "delay"

\* C9 amended: the first retry is not waited for, the wait before retry k
\* (k >= 2) is 2 x 2^(k-1) seconds (0, 4, 8 for k = 1, 2, 3), strictly
\* increasing, and the delay is not paid again between retries.
C9_BackoffSchedule ==
    /\ \A k \in DOMAIN Backoffs :
           Backoffs[k].d = IF k = 1 THEN 0 ELSE 2 * 2 ^ (k - 1)
    /\ \A k \in DOMAIN Backoffs : k > 1 => Backoffs[k - 1].d < Backoffs[k].d
    /\ \A i \in DOMAIN trace : i > 1 => trace[i].ev # "delay"

\* C9 witness: a call that went through all three retries, waiting 0, 4 and
\* 8 seconds.
C9_Witness ==
    /\ Len(Backoffs) = 3
    /\ Backoffs[1].d = 0
    /\ Backoffs[2].d = 4
    /\ Backoffs[3].d = 8
    /\ Attempts = 4

\* C10: in every reachable state the wrapper's configuration (headers, retry
\* policy mounted on the session, timeout, delay) is the one construction
\* wrote, get_session has only ever returned the wrapper's own session, and
\* a step that returns a handle changes nothing else.
C10_ConfigurationFixed ==
    /\ [](/\ w = CustomSession_init(headers_arg)
          /\ got \subseteq {CustomSession_init(headers_arg).session})
    /\ [][got' # got =>
            UNCHANGED <<headers_arg, w, script, body, pc, url, trace, retry,
                        res, ret, raised, out, ncalls, paid, prev>>]_vars

\* C10 witness: get_session returned the handle after two calls ran.
C10_Witness ==
    /\ got = {w.session}
    /\ ncalls = 2
    /\ pc = "done"

=============================================================================
